---------------------------- MODULE Spec2Model ----------------------------
(* Model of the NEORV32 runtime environment (sw/lib/source/neorv32_rte.c):  *)
(* the shared trap vector table, the installer, the first-level trap        *)
(* handler (context save, dispatch, return-address fix-up, restore), the    *)
(* context accessors, the debug handler and the per-core setup, on two      *)
(* harts sharing one memory.                                                *)
EXTENDS Integers, Sequences, FiniteSets, TLC

(***************************************************************************)
(* 32-bit words.  A uint32_t is the pair <<high half, low half>> of 16-bit  *)
(* halves, so that every operation below is the machine's operation modulo  *)
(* 2^32.                                                                    *)
(***************************************************************************)
Half == 65536

W(h, l) == <<h, l>>

Zero == W(0, 0)

\* a + b (mod 2^32)
Add32(a, b) ==
  LET s == a[2] + b[2]
  IN  W((a[1] + b[1] + (s \div Half)) % Half, s % Half)

\* a - b (mod 2^32)
Sub32(a, b) ==
  LET borrow == IF a[2] < b[2] THEN 1 ELSE 0
  IN  W((a[1] + 2 * Half - b[1] - borrow) % Half, (a[2] + Half - b[2]) % Half)

\* w << n (mod 2^32), for n in 0..31
Shl32(w, n) ==
  IF n < 16
    THEN W((w[1] * 2^n + (w[2] * 2^n) \div Half) % Half, (w[2] * 2^n) % Half)
    ELSE W((w[2] * 2^(n - 16)) % Half, 0)

\* w >> 31 as a number (0 or 1)
Shr31(w) == w[1] \div 32768

\* (w & 31) as a number
Low5(w) == w[2] % 32

\* (w & 3) as a number
Low2(w) == w[2] % 4

\* bitwise and of two naturals below 2^n
RECURSIVE BitAnd(_, _, _)
BitAnd(a, b, n) ==
  IF n = 0 THEN 0
  ELSE 2 * BitAnd(a \div 2, b \div 2, n - 1) + (IF a % 2 = 1 /\ b % 2 = 1 THEN 1 ELSE 0)

And32(a, b) == W(BitAnd(a[1], b[1], 16), BitAnd(a[2], b[2], 16))

Not32(a) == W(Half - 1 - a[1], Half - 1 - a[2])

\* bit i of w (i in 0..31)
Bit(w, i) == IF i < 16 THEN (w[2] \div 2^i) % 2 ELSE (w[1] \div 2^(i - 16)) % 2

\* (int32_t)w < 0
Negative(w) == w[1] >= 32768

\* a small number as a word
Num(n) == W(0, n)

(***************************************************************************)
(* Build and platform configuration.                                        *)
(***************************************************************************)
Cores == {0, 1}

\* number of general-purpose registers: 32, or 16 with __riscv_32e
NumRegs(e) == IF e THEN 16 ELSE 32


(***************************************************************************)
(* Addresses the linker assigns.  Their values are not fixed by the source; *)
(* they are distinct, word-aligned, and the stacks do not overlap the       *)
(* table.                                                                   *)
(***************************************************************************)
\* &__neorv32_rte_vector_lut[0][0]
LutBase == W(32768, 256)

\* &neorv32_rte_core
RteCoreAddr == W(0, 768)

\* &neorv32_rte_debug_handler
DebugHandlerAddr == W(0, 1024)

\* two application handlers ("void function(void)")
Handler1 == W(0, 4096)

Handler2 == W(0, 4352)

AppHandlers == {Handler1, Handler2}

\* initial stack pointer of each core's application
StackTop(c) == IF c = 0 THEN W(32768, 8192) ELSE W(32768, 4096)

(***************************************************************************)
(* Trap codes (mcause values) used by the source.                           *)
(***************************************************************************)
TRAP_CODE_I_MISALIGNED == W(0, 0)

TRAP_CODE_I_ACCESS == W(0, 1)

TRAP_CODE_I_ILLEGAL == W(0, 2)

TRAP_CODE_BREAKPOINT == W(0, 3)

TRAP_CODE_L_MISALIGNED == W(0, 4)

TRAP_CODE_L_ACCESS == W(0, 5)

TRAP_CODE_S_MISALIGNED == W(0, 6)

TRAP_CODE_S_ACCESS == W(0, 7)

TRAP_CODE_UENV_CALL == W(0, 8)

TRAP_CODE_MENV_CALL == W(0, 11)

TRAP_CODE_DOUBLE_TRAP == W(0, 16)

TRAP_CODE_MSI == W(32768, 3)

TRAP_CODE_MTI == W(32768, 7)

TRAP_CODE_MEI == W(32768, 11)

\* TRAP_CODE_FIRQ_0 .. TRAP_CODE_FIRQ_15
TRAP_CODE_FIRQ(n) == W(32768, 16 + n)

\* the identifier with direction d and index i
TrapCode(d, i) == W(32768 * d, i)

(***************************************************************************)
(* State.                                                                   *)
(***************************************************************************)
VARIABLES
  cfg,     \* build/platform: [riscv_32e, riscv_c, uart0]
  mem,     \* the shared memory: word address -> word (the table, the stacks)
  x,       \* x[c][r]: general-purpose register r of core c
  csr,     \* csr[c]: the control and status registers of core c
  at,      \* at[c]: where core c is executing
  loc,     \* loc[c]: the locals of the function core c is executing
  hist,    \* hist[c]: what happened on core c since its last trap was taken
  api      \* the calls of setup and install made so far, and the last one

vars == <<cfg, mem, x, csr, at, loc, hist, api>>

Regs == 0 .. NumRegs(cfg.riscv_32e) - 1

\* neorv32_cpu_load_unsigned_word; an address never written reads as a fixed
\* pattern
Load(m, a) == IF a \in DOMAIN m THEN m[a] ELSE W(57005, 48879)

\* neorv32_cpu_store_unsigned_word
Store(m, a, v) == [b \in (DOMAIN m) \cup {a} |-> IF b = a THEN v ELSE m[b]]

\* the address of __neorv32_rte_vector_lut[d][i] for in-range d, i
LutAddr(d, i) == Add32(LutBase, Num(128 * d + 4 * i))

LutAddrs == {LutAddr(d, i) : d \in 0 .. 1, i \in 0 .. 31}

\* the table as a program reading it sees it
LutRead(d, i) == Load(mem, LutAddr(d, i))

\* the register file the application of core c starts with: x0 is zero, x2 is
\* the stack pointer, every other register holds a value of its own
AppRegs(c, e) ==
  [r \in 0 .. NumRegs(e) - 1 |->
     IF r = 0 THEN Zero
     ELSE IF r = 2 THEN StackTop(c)
     ELSE W(4369 * (c + 1), 256 + r)]

CsrReset == [mstatus |-> Zero, mtvec |-> Zero, mie |-> Zero, mscratch |-> Zero,
             mepc |-> Zero, mcause |-> Zero, mtinst |-> Zero]

LocNone == [index |-> 0, mcause |-> Zero, handler_base |-> Zero]

\* hist[c]: the registers, mepc, mcause and mie when the trap was taken; the
\* handlers installed for its identifier since the previous trap with it
\* (pending); the handler whose install was the last write of its slot when
\* the table was read (expect); the handlers called; the frame as the handler
\* found it; the last value put per index; the last get; the UART0 line; the
\* CSRs the handler wrote and the value it wrote to mepc; whether the trap has
\* returned (mret)
HistNone == [regs |-> <<>>, mepc |-> Zero, mcause |-> Zero, mie |-> Zero,
             pending |-> {}, expect |-> {}, invoked |-> <<>>, frame |-> <<>>,
             put |-> <<>>, got |-> <<>>, line |-> <<>>, wrote |-> {},
             epc |-> Zero, done |-> FALSE]

\* the last install call: its arguments, what it returned and the addresses
\* whose content it changed
NoCall == [op |-> "none", core |-> 0, code |-> Zero, handler |-> Zero, ret |-> 0,
           changed |-> {}]

\* api: the state of each core's setup call; the numbers of install calls and
\* of traps taken; the last call; the <<identifier, handler>> installed and not
\* yet followed by a trap with that identifier (fresh); those whose install is
\* the last write of their slot (owner); whether an install has succeeded
\* since core 0's setup began (dirty); per identifier the last successful
\* install <<identifier, handler, whether core 0's setup had returned>>
\* (latest)
ApiNone == [setup |-> [c \in Cores |-> "no"], installs |-> 0,
            traps |-> [c \in Cores |-> 0], last |-> NoCall,
            fresh |-> {}, owner |-> {}, dirty |-> FALSE, latest |-> {}]

\* the addresses whose content differs between memories m and n
Changed(m, n) ==
  {a \in (DOMAIN m) \cup (DOMAIN n) :
     a \notin DOMAIN m \/ a \notin DOMAIN n \/ m[a] # n[a]}

Configs == [riscv_32e : BOOLEAN, riscv_c : BOOLEAN, uart0 : BOOLEAN]

\* after reset and crt0: .bss (the table) is zero, both cores run application code
InitWith(Cfgs) ==
  /\ cfg \in Cfgs
  /\ mem = [a \in LutAddrs |-> Zero]
  /\ x = [c \in Cores |-> AppRegs(c, cfg.riscv_32e)]
  /\ csr = [c \in Cores |-> CsrReset]
  /\ at = [c \in Cores |-> "app"]
  /\ loc = [c \in Cores |-> LocNone]
  /\ hist = [c \in Cores |-> HistNone]
  /\ api = ApiNone

Init == InitWith({[riscv_32e |-> FALSE, riscv_c |-> TRUE, uart0 |-> TRUE]})


(***************************************************************************)
(* neorv32_rte_setup                                                        *)
(***************************************************************************)
\* neorv32_cpu_csr_read(CSR_MHARTID)
MHartId(c) == Num(c)

\* (1<<CSR_MSTATUS_MPP_H) | (1<<CSR_MSTATUS_MPP_L)
MStatusMPP == W(0, 6144)

\* a variant without the test of mhartid
SetupFillsTableAny(c) == TRUE

\* the core that fills the table
SetupFillsTable(c) == MHartId(c) = Zero

\* the CSR writes of setup, then the loop (core 0) or the fence and return
neorv32_rte_setup(c) ==
  /\ at[c] = "app"
  /\ api.setup[c] = "no"
  /\ csr' = [csr EXCEPT ![c].mstatus = MStatusMPP,
                        ![c].mtvec = And32(RteCoreAddr, W(65535, 65532)),
                        ![c].mie = Zero]
  /\ IF SetupFillsTable(c)
       THEN /\ at' = [at EXCEPT ![c] = "setup_loop"]
            /\ loc' = [loc EXCEPT ![c].index = 0]
            /\ api' = [api EXCEPT !.setup[c] = "running", !.dirty = FALSE]
       ELSE /\ at' = at
            /\ loc' = loc
            /\ api' = [api EXCEPT !.setup[c] = "done"]
  /\ UNCHANGED <<cfg, mem, x, hist>>

\* the slots one iteration of the loop stores to: [0][index] and [1][index]
SetupRow0Only(i) == {LutAddr(0, i)}

SetupSlots(i) == {LutAddr(0, i), LutAddr(1, i)}

\* the value the loop stores: (uint32_t)(&neorv32_rte_debug_handler)
SetupFillValue == DebugHandlerAddr

\* one iteration of the loop: both stores, index++; after the last one the
\* fence and the return
neorv32_rte_setup_loop(c) ==
  /\ at[c] = "setup_loop"
  /\ LET i == loc[c].index
     IN  /\ mem' = [b \in DOMAIN mem |->
                   IF b \in SetupSlots(i) THEN SetupFillValue
                   ELSE mem[b]]
         /\ IF i + 1 < 32
              THEN /\ loc' = [loc EXCEPT ![c].index = i + 1]
                   /\ at' = at
                   /\ api' = [api EXCEPT !.owner = {p \in @ : Low5(p[1]) # i}]
              ELSE /\ loc' = [loc EXCEPT ![c] = LocNone]
                   /\ at' = [at EXCEPT ![c] = "app"]
                   /\ api' = [api EXCEPT !.setup[c] = "done",
                                         !.owner = {p \in @ : Low5(p[1]) # i}]
  /\ UNCHANGED <<cfg, x, csr, hist>>

(***************************************************************************)
(* neorv32_rte_handler_install                                              *)
(***************************************************************************)
\* a variant with the mask 0x8000003f
CodeInvalidWideMask(code) == And32(code, Not32(W(32768, 63))) # Zero

\* code & (~0x8000001fU)
CodeInvalid(code) == And32(code, Not32(W(32768, 31))) # Zero

\* a variant that indexes row 0 only
InstallAddrRow0(code) == Add32(LutBase, Shl32(code, 2))

\* &__neorv32_rte_vector_lut[code >> 31][code]: the base, plus the row of 32
\* words, plus the unmasked code scaled to words.  The column index of an
\* interrupt code has bit 31 set, outside the array; on the 32-bit target the
\* address is computed modulo 2^32 and the scaling shifts bit 31 out.
InstallAddr(code) ==
  Add32(Add32(LutBase, Num(128 * Shr31(code))), Shl32(code, 2))

\* a variant that stores to the slot of the index in both rows
InstallMemBothRows(m, code, handler) ==
  IF CodeInvalid(code) THEN m
  ELSE Store(Store(m, LutAddr(0, Low5(code)), handler), LutAddr(1, Low5(code)), handler)

\* the memory after install(code, handler), and what install returns
InstallMem(m, code, handler) ==
  IF CodeInvalid(code) THEN m ELSE Store(m, InstallAddr(code), handler)

InstallRet(code) == IF CodeInvalid(code) THEN -1 ELSE 0

neorv32_rte_handler_install(c, code, handler) ==
  /\ at[c] = "app"
  /\ api.setup[c] = "done"
  /\ mem' = InstallMem(mem, code, handler)
  /\ api' = [api EXCEPT
       !.installs = @ + 1,
       !.last = [op |-> "install", core |-> c, code |-> code, handler |-> handler,
                 ret |-> InstallRet(code), changed |-> Changed(mem, mem')],
       !.fresh = IF InstallRet(code) = 0 THEN @ \cup {<<code, handler>>} ELSE @,
       !.owner = IF InstallRet(code) = 0
                   THEN {p \in @ : p[1] # code} \cup {<<code, handler>>} ELSE @,
       !.dirty = @ \/ InstallRet(code) = 0,
       !.latest = IF InstallRet(code) = 0
                    THEN {p \in @ : p[1] # code}
                           \cup {<<code, handler, api.setup[0] = "done">>}
                    ELSE @]
  /\ UNCHANGED <<cfg, x, csr, at, loc, hist>>


(***************************************************************************)
(* The hardware taking a trap, and application code writing mie.            *)
(***************************************************************************)
\* mtvec as setup leaves it: the trap is routed to neorv32_rte_core
TrapVectorSet(c) == csr[c].mtvec = And32(RteCoreAddr, W(65535, 65532))

\* the hardware takes a trap in application code: an interrupt only when its
\* enable bit is set; mepc, mcause and mtinst describe the trap
TakeTrap(c, cause, epc, tinst) ==
  /\ at[c] = "app"
  /\ TrapVectorSet(c)
  /\ Negative(cause) => Bit(csr[c].mie, Low5(cause)) = 1
  /\ csr' = [csr EXCEPT ![c].mepc = epc, ![c].mcause = cause, ![c].mtinst = tinst]
  /\ at' = [at EXCEPT ![c] = "save"]
  /\ hist' = [hist EXCEPT ![c] =
       [HistNone EXCEPT !.regs = x[c], !.mepc = epc, !.mcause = cause,
                        !.mie = csr[c].mie,
                        !.pending = {p[2] : p \in {q \in api.fresh : q[1] = cause}}]]
  /\ api' = [api EXCEPT !.traps[c] = @ + 1,
                        !.fresh = {q \in @ : q[1] # cause}]
  /\ UNCHANGED <<cfg, mem, x, loc>>

\* the application enables interrupt sources: neorv32_cpu_csr_write(CSR_MIE, v)
AppWriteMie(c, v) ==
  /\ at[c] = "app"
  /\ api.setup[c] = "done"
  /\ csr[c].mie # v
  /\ csr' = [csr EXCEPT ![c].mie = v]
  /\ UNCHANGED <<cfg, mem, x, at, loc, hist, api>>

(***************************************************************************)
(* neorv32_rte_core: save context                                           *)
(***************************************************************************)
\* a variant with "addi sp, sp, -32*4" in every build
FrameBase32(sp, n) == Sub32(sp, Num(4 * 32))

\* "addi sp, sp, -32*4" (or -16*4): the frame base below the stack pointer
FrameBase(sp, n) == Sub32(sp, Num(4 * n))

\* the address of the frame slot of register r
SlotAddr(base, r) == Add32(base, Num(4 * r))

\* the memory after the words ws[0], ws[1], .. are stored from base upwards
StoreWords(m, base, ws) ==
  LET off(b) == Sub32(b, base)
      hit(b) == off(b)[1] = 0 /\ off(b)[2] % 4 = 0 /\ (off(b)[2] \div 4) \in DOMAIN ws
  IN  [b \in (DOMAIN m) \cup {SlotAddr(base, r) : r \in DOMAIN ws} |->
         IF hit(b) THEN ws[off(b)[2] \div 4] ELSE m[b]]

\* a variant that stores sp after the addi, the frame's own address, in slot 2
SaveFrameOwnSp(m, regs, n) ==
  LET sp1 == FrameBase(regs[2], n)
  IN  [mem |-> StoreWords(m, sp1, [r \in 0 .. n - 1 |-> IF r = 2 THEN sp1 ELSE regs[r]]),
       regs |-> [regs EXCEPT ![1] = regs[2], ![2] = sp1],
       mscratch |-> sp1]

\* the save sequence, instruction by instruction; yields the memory, the
\* registers and mscratch it leaves
SaveFrame(m, regs, n) ==
  LET scr1 == regs[2]                  \* csrw mscratch, sp
      sp1 == FrameBase(regs[2], n)     \* addi sp, sp, -n*4
      x1 == scr1                       \* csrrw x1, mscratch, sp (after sw x0, sw x1)
      scr2 == sp1
      \* sw x0, 0*4(sp); sw x1, 1*4(sp); [csrrw]; sw x1, 2*4(sp); sw x3 .. x31 (x15)
      frame == [r \in 0 .. n - 1 |-> IF r = 2 THEN x1 ELSE regs[r]]
  IN  [mem |-> StoreWords(m, sp1, frame),
       regs |-> [regs EXCEPT ![1] = x1, ![2] = sp1],
       mscratch |-> scr2]

SaveContext(c) ==
  /\ at[c] = "save"
  /\ LET s == SaveFrame(mem, x[c], NumRegs(cfg.riscv_32e))
     IN  /\ mem' = s.mem
         /\ x' = [x EXCEPT ![c] = s.regs]
         /\ csr' = [csr EXCEPT ![c].mscratch = s.mscratch]
  /\ at' = [at EXCEPT ![c] = "dispatch"]
  /\ UNCHANGED <<cfg, loc, hist, api>>

(***************************************************************************)
(* neorv32_rte_context_get, neorv32_rte_context_put, called by a handler    *)
(***************************************************************************)
\* a variant that masks with 15 in every build
IndexMask15(xi, e) == xi % 16

\* (x & 31), or (x & 15) with __riscv_32e, of an int x
IndexMask(xi, e) == xi % NumRegs(e)

\* tmp = mscratch + ((x & mask) << 2)
ContextAddr(scratch, xi, e) == Add32(scratch, Shl32(Num(IndexMask(xi, e)), 2))

neorv32_rte_context_get(c, xi) ==
  Load(mem, ContextAddr(csr[c].mscratch, xi, cfg.riscv_32e))

\* a variant of context_put that masks with 15 in every build
ContextPutMem15(m, c, xi, data) ==
  Store(m, Add32(csr[c].mscratch, Shl32(Num(xi % 16), 2)), data)

ContextPutMem(m, c, xi, data) ==
  Store(m, ContextAddr(csr[c].mscratch, xi, cfg.riscv_32e), data)


(***************************************************************************)
(* neorv32_rte_core: dispatch                                               *)
(***************************************************************************)
\* values compiled code may leave in the registers it is free to use
Scratch == {W(47806, 1)}

\* the registers after compiled code ran: x0 and sp as before, the others
\* whatever the code left there
Clobber(regs, j) == [r \in DOMAIN regs |-> IF r \in {0, 2} THEN regs[r] ELSE j]

HandlerBaseRow0(m, mcause) == Load(m, LutAddr(0, Low5(mcause)))

\* __neorv32_rte_vector_lut[mcause >> 31][mcause & 31]
HandlerBase(m, mcause) == Load(m, LutAddr(Shr31(mcause), Low5(mcause)))

\* a variant without the test for null
HandlerCalledAlways(hb) == TRUE

\* the handler is called when the entry is not null
HandlerCalled(hb) == hb # Zero

Dispatch(c) ==
  /\ at[c] = "dispatch"
  /\ LET mcause == csr[c].mcause
         hb == HandlerBase(mem, mcause)
     IN  /\ loc' = [loc EXCEPT ![c].mcause = mcause, ![c].handler_base = hb]
         /\ IF HandlerCalled(hb)
              THEN at' = [at EXCEPT ![c] = IF hb = DebugHandlerAddr
                                             THEN "debug" ELSE "handler"]
              ELSE at' = [at EXCEPT ![c] = "fixup"]
         /\ hist' = [hist EXCEPT
              ![c].invoked = IF HandlerCalled(hb) THEN Append(@, hb) ELSE @,
              ![c].expect = {p[2] : p \in {q \in api.owner : q[1] = mcause}},
              ![c].frame = [r \in Regs |-> neorv32_rte_context_get(c, r)]]
  /\ \E j \in Scratch : x' = [x EXCEPT ![c] = Clobber(@, j)]
  /\ UNCHANGED <<cfg, mem, csr, api>>

\* a handler reads a saved register
HandlerGet(c, xi) ==
  /\ at[c] = "handler"
  /\ hist' = [hist EXCEPT ![c].got = <<xi, neorv32_rte_context_get(c, xi)>>]
  /\ UNCHANGED <<cfg, mem, x, csr, at, loc, api>>

\* a handler writes a saved register
HandlerPut(c, xi, data) ==
  /\ at[c] = "handler"
  /\ mem' = ContextPutMem(mem, c, xi, data)
  /\ hist' = [hist EXCEPT ![c].put = (xi :> data) @@ @, ![c].got = <<>>]
  /\ UNCHANGED <<cfg, x, csr, at, loc, api>>

\* a handler writes mepc or mcause
HandlerWriteCsr(c, reg, v) ==
  /\ at[c] = "handler"
  /\ reg \notin hist[c].wrote
  /\ csr' = [csr EXCEPT ![c][reg] = v]
  /\ hist' = [hist EXCEPT ![c].wrote = @ \cup {reg},
                          ![c].epc = IF reg = "mepc" THEN v ELSE @]
  /\ UNCHANGED <<cfg, mem, x, at, loc, api>>

\* the handler returns to neorv32_rte_core
HandlerReturn(c) ==
  /\ at[c] = "handler"
  /\ at' = [at EXCEPT ![c] = "fixup"]
  /\ UNCHANGED <<cfg, mem, x, csr, loc, hist, api>>

(***************************************************************************)
(* neorv32_rte_debug_handler                                                *)
(***************************************************************************)
\* the text of "switch (trap_cause)"
TrapName(tc) ==
  CASE tc = TRAP_CODE_I_ACCESS     -> "Instruction access fault"
    [] tc = TRAP_CODE_I_ILLEGAL    -> "Illegal instruction"
    [] tc = TRAP_CODE_I_MISALIGNED -> "Instruction address misaligned"
    [] tc = TRAP_CODE_BREAKPOINT   -> "Environment breakpoint"
    [] tc = TRAP_CODE_L_MISALIGNED -> "Load address misaligned"
    [] tc = TRAP_CODE_L_ACCESS     -> "Load access fault"
    [] tc = TRAP_CODE_S_MISALIGNED -> "Store address misaligned"
    [] tc = TRAP_CODE_S_ACCESS     -> "Store access fault"
    [] tc = TRAP_CODE_UENV_CALL    -> "Environment call from U-mode"
    [] tc = TRAP_CODE_MENV_CALL    -> "Environment call from M-mode"
    [] tc = TRAP_CODE_DOUBLE_TRAP  -> "Double-trap"
    [] tc = TRAP_CODE_MSI          -> "Machine software IRQ"
    [] tc = TRAP_CODE_MTI          -> "Machine timer IRQ"
    [] tc = TRAP_CODE_MEI          -> "Machine external IRQ"
    [] tc \in {TRAP_CODE_FIRQ(n) : n \in 0 .. 15} -> "Fast IRQ "
    [] OTHER                       -> "Unknown trap cause "

\* ((int32_t)trap_cause) < 0
IsInterrupt(tc) == Negative(tc)

\* a variant that masks the cause with 0x0f
DisableIrqLow(mie, tc) == And32(mie, Not32(Shl32(Num(1), Low5(tc) % 16)))

\* neorv32_cpu_csr_clr(CSR_MIE, 1 << (trap_cause & 0x1f)); for index 31 the
\* shift instruction yields 0x80000000
DisableIrq(mie, tc) == And32(mie, Not32(Shl32(Num(1), Low5(tc))))

\* a variant that leaves the double trap out
IsFatalNoDouble(tc) ==
  \/ tc = TRAP_CODE_I_ACCESS
  \/ tc = TRAP_CODE_I_MISALIGNED

\* the causes the handler halts on
IsFatal(tc) ==
  \/ tc = TRAP_CODE_I_ACCESS
  \/ tc = TRAP_CODE_I_MISALIGNED
  \/ tc = TRAP_CODE_DOUBLE_TRAP

\* a variant without the test for an interrupt
DebugMieClrAlways(mie, tc) ==
  IF IsFatal(tc) THEN Zero ELSE DisableIrq(mie, tc)

\* mie as the handler leaves it when UART0 is there
DebugMie(mie, tc) ==
  IF IsFatal(tc) THEN Zero
  ELSE IF IsInterrupt(tc) THEN DisableIrq(mie, tc)
  ELSE mie

\* the line sent to UART0 (the numbers printed in hexadecimal are left out)
DebugLine(c, tc) ==
  <<"<NEORV32-RTE> ",
    IF Bit(MHartId(c), 0) = 1 THEN "[cpu1|" ELSE "[cpu0|",
    IF And32(csr[c].mstatus, W(0, 6144)) # Zero THEN "M] " ELSE "U] ",
    TrapName(tc), " @ PC=", ", MTINST=", ", MTVAL=">>
  \o (IF IsInterrupt(tc) THEN <<" Disabling IRQ source">> ELSE <<>>)
  \o (IF IsFatal(tc) THEN <<" !!FATAL EXCEPTION!! Halting CPU </NEORV32-RTE>\n">>
      ELSE <<" </NEORV32-RTE>\n">>)

\* a variant without the test for UART0
DebugHandlerNoUartCheck(c) ==
  /\ at[c] = "debug"
  /\ LET tc == csr[c].mcause
     IN  /\ csr' = [csr EXCEPT ![c].mie = DebugMie(@, tc)]
         /\ hist' = [hist EXCEPT ![c].line = DebugLine(c, tc)]
         /\ at' = [at EXCEPT ![c] = IF IsFatal(tc) THEN "halt" ELSE "fixup"]
  /\ UNCHANGED <<cfg, mem, x, loc, api>>

\* a variant that on a fatal exception clears mie of every core
DebugHandlerDisablesAll(c) ==
  /\ at[c] = "debug"
  /\ IF ~cfg.uart0
       THEN /\ at' = [at EXCEPT ![c] = "fixup"]
            /\ UNCHANGED <<csr, hist>>
       ELSE LET tc == csr[c].mcause
            IN  /\ csr' = IF IsFatal(tc)
                            THEN [k \in Cores |-> [csr[k] EXCEPT !.mie = Zero]]
                            ELSE [csr EXCEPT ![c].mie = DebugMie(@, tc)]
                /\ hist' = [hist EXCEPT ![c].line = DebugLine(c, tc)]
                /\ at' = [at EXCEPT ![c] = IF IsFatal(tc) THEN "halt" ELSE "fixup"]
  /\ UNCHANGED <<cfg, mem, x, loc, api>>

\* the whole handler: nothing without UART0; else the line, the interrupt
\* source disabled, and the halt on a fatal exception
neorv32_rte_debug_handler(c) ==
  /\ at[c] = "debug"
  /\ IF ~cfg.uart0
       THEN /\ at' = [at EXCEPT ![c] = "fixup"]
            /\ UNCHANGED <<csr, hist>>
       ELSE LET tc == csr[c].mcause
            IN  /\ csr' = [csr EXCEPT ![c].mie = DebugMie(@, tc)]
                /\ hist' = [hist EXCEPT ![c].line = DebugLine(c, tc)]
                /\ at' = [at EXCEPT ![c] = IF IsFatal(tc) THEN "halt" ELSE "fixup"]
  /\ UNCHANGED <<cfg, mem, x, loc, api>>

\* while(1) { wfi }: the core stays here
Halted(c) ==
  /\ at[c] = "halt"
  /\ UNCHANGED vars

(***************************************************************************)
(* neorv32_rte_core: return address, restore context, mret                  *)
(***************************************************************************)
\* a variant without the test for the instruction access fault
FixupAnyException(mcause) == Shr31(mcause) = 0

\* ((mcause >> 31) == 0) && (mcause != TRAP_CODE_I_ACCESS)
FixupApplies(mcause) == Shr31(mcause) = 0 /\ mcause # TRAP_CODE_I_ACCESS

\* a variant that tests mtinst also without __riscv_c
FixedEpcNoRvc(mepc, mtinst, rvc) ==
  IF Low2(mtinst) # 3 THEN Add32(mepc, Num(2)) ELSE Add32(mepc, Num(4))

\* mepc += 4; with __riscv_c, mepc -= 2 if (mtinst & 3) != 3
FixedEpc(mepc, mtinst, rvc) ==
  LET plus4 == Add32(mepc, Num(4))
  IN  IF rvc /\ Low2(mtinst) # 3 THEN Sub32(plus4, Num(2)) ELSE plus4

\* a variant that reads mcause again after the handler
FixupCauseReread(c) == csr[c].mcause

\* the local variable mcause, read before the handler is called
FixupCause(c) == loc[c].mcause

Fixup(c) ==
  /\ at[c] = "fixup"
  /\ csr' = IF FixupApplies(FixupCause(c))
              THEN [csr EXCEPT ![c].mepc = FixedEpc(@, csr[c].mtinst, cfg.riscv_c)]
              ELSE csr
  /\ at' = [at EXCEPT ![c] = "restore"]
  /\ UNCHANGED <<cfg, mem, x, loc, hist, api>>

\* a variant that ends with "addi sp, sp, n*4" where the code loads x2
RestoreRegsAddSp(m, regs) ==
  [r \in DOMAIN regs |->
     IF r = 0 THEN regs[0]
     ELSE IF r = 2 THEN Add32(regs[2], Num(4 * Cardinality(DOMAIN regs)))
     ELSE Load(m, SlotAddr(regs[2], r))]

\* "lw xr, r*4(sp)" for r = 1, 3 .. n-1, then "lw x2, 2*4(sp)": every load
\* uses the sp the handler returned with; x0 is not loaded
RestoreRegs(m, regs) ==
  [r \in DOMAIN regs |-> IF r = 0 THEN regs[0] ELSE Load(m, SlotAddr(regs[2], r))]

\* restore context and mret: the application resumes at mepc
Restore(c) ==
  /\ at[c] = "restore"
  /\ x' = [x EXCEPT ![c] = RestoreRegs(mem, @)]
  /\ at' = [at EXCEPT ![c] = "app"]
  /\ loc' = [loc EXCEPT ![c] = LocNone]
  /\ hist' = [hist EXCEPT ![c].done = TRUE]
  /\ UNCHANGED <<cfg, mem, csr, api>>


(***************************************************************************)
(* The system: both cores run application code, call setup and install and  *)
(* take traps concurrently, sharing the table.                              *)
(***************************************************************************)
\* install calls made in one run, and traps taken by one core in one run
MaxInstalls == 1

MaxTraps == 1

Install(c, Codes, Hs) ==
  /\ api.installs < MaxInstalls
  /\ \E code \in Codes, h \in Hs : neorv32_rte_handler_install(c, code, h)

Trap(c, Causes, Epcs, Tinsts) ==
  /\ api.traps[c] < MaxTraps
  /\ \E cause \in Causes, epc \in Epcs, tinst \in Tinsts : TakeTrap(c, cause, epc, tinst)

\* what neorv32_rte_core and the debug handler do between the trap and the mret
TrapFlow(c) ==
  \/ SaveContext(c)
  \/ Dispatch(c)
  \/ HandlerReturn(c)
  \/ neorv32_rte_debug_handler(c)
  \/ Halted(c)
  \/ Fixup(c)
  \/ Restore(c)

\* inputs of the concurrent system
SysCauses == {TRAP_CODE_I_ACCESS, TRAP_CODE_MTI}

SysCodes == {TRAP_CODE_MTI}

SysHandlers == {Handler1}

SysEpcs == {W(0, 512)}

SysTinsts == {W(0, 115)}

SysMies == {W(0, 128)}

Next ==
  \E c \in Cores :
    \/ neorv32_rte_setup(c)
    \/ neorv32_rte_setup_loop(c)
    \/ Install(c, SysCodes, SysHandlers)
    \/ \E v \in SysMies : AppWriteMie(c, v)
    \/ Trap(c, SysCauses, SysEpcs, SysTinsts)
    \/ TrapFlow(c)

Spec == Init /\ [][Next]_vars


(***************************************************************************)
(* One core at work: the state after setup() has run on both cores and      *)
(* installs have filled the table, with one core running its application    *)
(* and the other asleep.  The specifications below start here and give the  *)
(* trap, the installer and the context accessors their wide inputs.         *)
(***************************************************************************)
CsrAfterSetup == [CsrReset EXCEPT !.mstatus = MStatusMPP,
                                  !.mtvec = And32(RteCoreAddr, W(65535, 65532))]

InitAfterSetup(Cfgs, Entries) ==
  /\ cfg \in Cfgs
  /\ \E e \in Entries : mem = [a \in LutAddrs |-> e]
  /\ x = [c \in Cores |-> AppRegs(c, cfg.riscv_32e)]
  /\ csr = [c \in Cores |-> CsrAfterSetup]
  /\ \E a \in Cores : at = [c \in Cores |-> IF c = a THEN "app" ELSE "sleep"]
  /\ loc = [c \in Cores |-> LocNone]
  /\ hist = [c \in Cores |-> HistNone]
  /\ api = [ApiNone EXCEPT !.setup = [c \in Cores |-> "done"]]

\* what every slot holds: the debug handler, an application handler, or null
TableEntries == {DebugHandlerAddr, Handler1, Zero}

(***************************************************************************)
(* SpecTrap: traps of every kind, with handlers that write mepc and mcause. *)
(***************************************************************************)
\* exceptions: the three the debug handler halts on, three it returns from
\* and one it has no name for; interrupts: indexes in both halves of mie,
\* first and last
TrapExceptions ==
  {TRAP_CODE_I_MISALIGNED, TRAP_CODE_I_ACCESS, TRAP_CODE_DOUBLE_TRAP,
   TRAP_CODE_I_ILLEGAL, TRAP_CODE_L_ACCESS, TRAP_CODE_MENV_CALL, TrapCode(0, 31)}

TrapInterrupts ==
  {TrapCode(1, 0), TRAP_CODE_MTI, TRAP_CODE_FIRQ(0), TRAP_CODE_FIRQ(15)}

\* resume addresses: 0x0000fffe, where + 4 carries into the high half, and
\* 0xfffffffe, where it wraps around 2^32
TrapEpcs == {W(0, 65534), W(65535, 65534)}

\* trapped instruction words: uncompressed (low bits 11) and compressed
TrapTinsts == {W(0, 115), W(40961, 1)}

\* the interrupt enables the application writes: 0x80f10f81, the sources of
\* TrapInterrupts and some others, not all
TrapMies == {W(33009, 3969)}

TrapConfigs == Configs

InitTrap == InitAfterSetup(TrapConfigs, TableEntries)

NextTrap ==
  \E c \in Cores :
    \/ \E v \in TrapMies : AppWriteMie(c, v)
    \/ Trap(c, TrapExceptions \cup TrapInterrupts, TrapEpcs, TrapTinsts)
    \/ TrapFlow(c)
    \/ \E a \in {W(0, 1024)} : HandlerWriteCsr(c, "mepc", a)
    \/ \E v \in {TRAP_CODE_I_ACCESS, TRAP_CODE_I_ILLEGAL} : HandlerWriteCsr(c, "mcause", v)

SpecTrap == InitTrap /\ [][NextTrap]_vars

(***************************************************************************)
(* SpecDebug: traps on a table that holds the debug handler in every slot,  *)
(* as setup leaves it, or null in every slot, with and without UART0.  A    *)
(* core that is inside neorv32_rte_core or the debug handler executes its   *)
(* next instruction.                                                        *)
(***************************************************************************)
DebugCauses ==
  {TRAP_CODE_I_ILLEGAL, TRAP_CODE_MENV_CALL, TrapCode(0, 31),
   TRAP_CODE_I_ACCESS, TRAP_CODE_MTI}

DebugConfigs == [riscv_32e : {FALSE}, riscv_c : BOOLEAN, uart0 : BOOLEAN]

InitDebug == InitAfterSetup(DebugConfigs, {DebugHandlerAddr, Zero})

\* the steps of neorv32_rte_core and of the debug handler
DebugFlow(c) ==
  \/ SaveContext(c)
  \/ Dispatch(c)
  \/ neorv32_rte_debug_handler(c)
  \/ Halted(c)
  \/ Fixup(c)
  \/ Restore(c)

NextDebug ==
  \E c \in Cores :
    \/ \E v \in TrapMies : AppWriteMie(c, v)
    \/ Trap(c, DebugCauses, {W(65535, 65534)}, TrapTinsts)
    \/ DebugFlow(c)

SpecDebug == InitDebug /\ [][NextDebug]_vars /\ \A c \in Cores : WF_vars(DebugFlow(c))

(***************************************************************************)
(* SpecHalt: both cores take traps after setup, on the table of debug       *)
(* handlers setup leaves; a core halts on an instruction access fault while *)
(* the other goes on.  A core that is inside neorv32_rte_core or the debug  *)
(* handler executes its next instruction.                                   *)
(***************************************************************************)
HaltCauses == {TRAP_CODE_I_ACCESS, TRAP_CODE_MTI}

InitHalt ==
  /\ cfg = [riscv_32e |-> FALSE, riscv_c |-> TRUE, uart0 |-> TRUE]
  /\ mem = [a \in LutAddrs |-> DebugHandlerAddr]
  /\ x = [c \in Cores |-> AppRegs(c, cfg.riscv_32e)]
  /\ csr = [c \in Cores |-> CsrAfterSetup]
  /\ at = [c \in Cores |-> "app"]
  /\ loc = [c \in Cores |-> LocNone]
  /\ hist = [c \in Cores |-> HistNone]
  /\ api = [ApiNone EXCEPT !.setup = [c \in Cores |-> "done"]]

NextHalt ==
  \E c \in Cores :
    \/ \E v \in TrapMies : AppWriteMie(c, v)
    \/ Trap(c, HaltCauses, SysEpcs, SysTinsts)
    \/ DebugFlow(c)

SpecHalt == InitHalt /\ [][NextHalt]_vars /\ \A c \in Cores : WF_vars(DebugFlow(c))

(***************************************************************************)
(* SpecInstall: install with every well-formed identifier and with          *)
(* malformed ones, on a table that setup has filled.                        *)
(***************************************************************************)
\* the 64 identifiers with only bit 31 and bits 4..0 set
ValidCodes == {TrapCode(d, i) : d \in 0 .. 1, i \in 0 .. 31}

\* identifiers with a bit outside: bit 5, 6, 15, 16, 30 alone and together
\* with direction and index bits, and all ones
InvalidCodes ==
  {W(0, 32), W(0, 33), W(0, 63), W(32768, 32), W(32768, 63),
   W(0, 64), W(0, 32768), W(0, 32775), W(1, 0), W(32769, 11), W(16384, 0),
   W(16384, 31), W(49152, 3), W(0, 65535), W(65535, 65535)}

InstallHandlers == AppHandlers

InitInstall ==
  InitAfterSetup({[riscv_32e |-> FALSE, riscv_c |-> TRUE, uart0 |-> TRUE]},
                 {DebugHandlerAddr, Zero})

NextInstall ==
  \E c \in Cores : Install(c, ValidCodes \cup InvalidCodes, InstallHandlers)

SpecInstall == InitInstall /\ [][NextInstall]_vars

(***************************************************************************)
(* SpecCtx: a handler that reads and writes the saved registers, on the     *)
(* full and on the reduced register file.                                   *)
(***************************************************************************)
\* register numbers a handler passes: 0 and 2 are in range in both builds,
\* 18 only on the full register file (masked with 15 it is 2)
CtxIndexes == {0, 2, 18}

CtxData == {W(51966, 256), W(0, 1)}

CtxConfigs == [riscv_32e : BOOLEAN, riscv_c : {TRUE}, uart0 : {TRUE}]

InitCtx == InitAfterSetup(CtxConfigs, {Handler1})

NextCtx ==
  \E c \in Cores :
    \/ Trap(c, {TRAP_CODE_I_ILLEGAL}, {W(0, 512)}, {W(0, 115)})
    \/ SaveContext(c)
    \/ Dispatch(c)
    \/ \E xi \in CtxIndexes : HandlerGet(c, xi)
    \/ \E xi \in CtxIndexes, data \in CtxData : HandlerPut(c, xi, data)
    \/ HandlerReturn(c)
    \/ Fixup(c)
    \/ Restore(c)

SpecCtx == InitCtx /\ [][NextCtx]_vars


(***************************************************************************)
(* Properties.                                                              *)
(***************************************************************************)
TableAllDebug == \A d \in 0 .. 1, i \in 0 .. 31 : LutRead(d, i) = DebugHandlerAddr

\* the table has been read for the trap in progress or last returned on c
LookedUp(c) == at[c] \notin {"save", "dispatch"} /\ hist[c].regs # <<>>

\* C4 as stated: once setup() has returned on a core, either one, and no
\* install has been made, all 64 slots hold the debug handler's address.
C4_Original ==
  \A c \in Cores :
    (api.setup[c] = "done" /\ api.installs = 0) => TableAllDebug

\* C4 amended: once setup() has returned on core 0, the core that fills the
\* table, and no install has succeeded since that call began, all 64 slots
\* hold the debug handler's address.
C4_SetupFillsTable ==
  (api.setup[0] = "done" /\ ~api.dirty) => TableAllDebug

\* core 0's setup has returned after an earlier install, which it overwrote
C4_Witness ==
  api.setup[0] = "done" /\ ~api.dirty /\ api.installs > 0

\* C5 as stated (for a handler that is neither null nor the debug handler):
\* once install(identifier, handler) has returned 0, the next trap with that
\* identifier on either core calls that handler exactly once, does not call
\* the debug handler, and does not halt.
C5_Original ==
  \A c \in Cores :
    \A h \in hist[c].pending \ {Zero, DebugHandlerAddr} :
      LookedUp(c) => (hist[c].invoked = <<h>> /\ at[c] \notin {"debug", "halt"})

\* C5 amended: if the last write of the slot of a trap's identifier, when the
\* trap reads the table, is an install on either core of a handler that is
\* neither null nor the debug handler, the trap calls that handler exactly
\* once, does not call the debug handler, and goes on to fix-up, restore and
\* mret.
C5_InstalledHandlerRuns ==
  \A c \in Cores :
    \A h \in hist[c].expect \ {Zero, DebugHandlerAddr} :
      /\ hist[c].invoked = <<h>>
      /\ at[c] \in {"handler", "fixup", "restore", "app"}
      /\ at[c] = "app" => hist[c].done

\* a trap on one core has called the handler the other core installed, and
\* has returned
C5_Witness ==
  \E c \in Cores :
    /\ hist[c].expect = {Handler1}
    /\ api.last.op = "install" /\ api.last.core # c
    /\ hist[c].done

\* the fix-up of the trap on c has run and the mret has not, or the mret has
\* and no other trap was taken since
FixupDone(c) == at[c] = "restore" \/ (at[c] = "app" /\ hist[c].done)

\* the resume address the trap was taken with, advanced past the trapped
\* instruction: by 2 with compressed-instruction support when the low bits of
\* mtinst are not both 1, by 4 otherwise
Advanced(c) ==
  IF cfg.riscv_c /\ Low2(csr[c].mtinst) # 3
    THEN Add32(hist[c].mepc, Num(2))
    ELSE Add32(hist[c].mepc, Num(4))

\* an exception other than the instruction access fault
AdvancingCause(tc) == ~Negative(tc) /\ tc # TRAP_CODE_I_ACCESS

\* C6 as stated: for every exception other than the instruction access fault,
\* the resume address after the fix-up is the resume address the trap was
\* taken with plus 4, or plus 2 for a compressed instruction.
C6_Original ==
  \A c \in Cores :
    (FixupDone(c) /\ AdvancingCause(hist[c].mcause)) => csr[c].mepc = Advanced(c)

\* C6 amended: the same, for a trap whose handler does not write mepc.
C6_ResumeAdvanced ==
  \A c \in Cores :
    (FixupDone(c) /\ AdvancingCause(hist[c].mcause) /\ "mepc" \notin hist[c].wrote)
      => csr[c].mepc = Advanced(c)

\* an exception taken at 0xfffffffe on a compressed instruction has returned
\* to address 0, after a handler that wrote mcause and not mepc
C6_Witness ==
  \E c \in Cores :
    /\ hist[c].done /\ AdvancingCause(hist[c].mcause)
    /\ cfg.riscv_c /\ Low2(csr[c].mtinst) # 3
    /\ hist[c].mepc = W(65535, 65534) /\ csr[c].mepc = Zero
    /\ hist[c].wrote = {"mcause"}

\* C7: for an instruction access fault and for every interrupt, with a handler
\* that does not write mepc, the resume address at the mret is the resume
\* address the trap was taken with.
C7_ResumeUntouched ==
  \A c \in Cores :
    (FixupDone(c) /\ ~AdvancingCause(hist[c].mcause) /\ "mepc" \notin hist[c].wrote)
      => csr[c].mepc = hist[c].mepc

\* an instruction access fault whose slot is null, and an interrupt whose
\* handler wrote mcause, have returned
C7_Witness ==
  \E c \in Cores :
    /\ hist[c].done /\ "mepc" \notin hist[c].wrote
    /\ \/ hist[c].mcause = TRAP_CODE_I_ACCESS /\ hist[c].invoked = <<>>
       \/ hist[c].mcause = TRAP_CODE_FIRQ(15) /\ hist[c].wrote = {"mcause"}

\* the debug handler, called once for the trap on c, has returned to
\* neorv32_rte_core, which has not executed the mret yet
DebugReturned(c) ==
  hist[c].invoked = <<DebugHandlerAddr>> /\ at[c] \in {"fixup", "restore"}

\* mie of c is as the trap found it, but for bit i, which is clear
OnlyBitCleared(c, i) ==
  \A b \in 0 .. 31 : Bit(csr[c].mie, b) = IF b = i THEN 0 ELSE Bit(hist[c].mie, b)

\* C9 as stated: when the debug handler, called for an interrupt with index
\* i, returns, bit i of mie is clear and every other bit is as before.
C9_Original ==
  \A c \in Cores :
    (DebugReturned(c) /\ Negative(hist[c].mcause))
      => OnlyBitCleared(c, Low5(hist[c].mcause))

\* C9 amended: the same, when UART0 is available.
C9_IrqSourceDisabled ==
  \A c \in Cores :
    (DebugReturned(c) /\ Negative(hist[c].mcause) /\ cfg.uart0)
      => OnlyBitCleared(c, Low5(hist[c].mcause))

\* the debug handler has returned from fast interrupt 0, index 16, with bits
\* still set in mie
C9_Witness ==
  \E c \in Cores :
    /\ DebugReturned(c) /\ cfg.uart0
    /\ hist[c].mcause = TRAP_CODE_FIRQ(0)
    /\ csr[c].mie \notin {Zero, hist[c].mie}

\* the debug handler was called for a trap on c with one of the three causes
FatalCalled(c) ==
  /\ hist[c].invoked = <<DebugHandlerAddr>>
  /\ hist[c].mcause \in
       {TRAP_CODE_I_ACCESS, TRAP_CODE_I_MISALIGNED, TRAP_CODE_DOUBLE_TRAP}

\* the core is inside the debug handler, and in its final loop with mie = 0
InDebugOrHalted(c) ==
  /\ at[c] \in {"debug", "halt"}
  /\ at[c] = "halt" => csr[c].mie = Zero
  /\ ~hist[c].done

\* C10 as stated: the debug handler, called for an instruction access fault,
\* a misaligned instruction address or a double trap, sets mie to 0 and does
\* not return: the core never reaches fix-up, restore or mret for that trap.
C10_Original ==
  \A c \in Cores : FatalCalled(c) => InDebugOrHalted(c)

\* C10 amended: the same, when UART0 is available.
C10_FatalHalts ==
  \A c \in Cores : (FatalCalled(c) /\ cfg.uart0) => InDebugOrHalted(c)

\* a core has halted on a double trap taken with interrupts enabled
C10_Witness ==
  \E c \in Cores :
    /\ at[c] = "halt" /\ cfg.uart0
    /\ hist[c].mcause = TRAP_CODE_DOUBLE_TRAP
    /\ hist[c].mie # Zero /\ csr[c].mie = Zero

\* C1: when a trap whose handler made no context_put (or whose slot is null)
\* executes its mret, every register x1 .. x31 (x15), sp included, holds the
\* value it held when the trap was taken.
C1_RegistersPreserved ==
  \A c \in Cores :
    (at[c] = "app" /\ hist[c].done /\ hist[c].put = <<>>)
      => \A r \in Regs \ {0} : x[c][r] = hist[c].regs[r]

\* a trap on core 1 has called an application handler, which left its own
\* values in the registers, and has returned with sp restored
C1_Witness ==
  /\ at[1] = "app" /\ hist[1].done /\ hist[1].invoked = <<Handler1>>
  /\ x[1][2] = StackTop(1) /\ x[1][1] \notin Scratch
  /\ hist[1].regs = AppRegs(1, cfg.riscv_32e)

\* bits other than bit 31 and bits 4..0 are set in the identifier
OutsideBits(code) == code[1] % 32768 # 0 \/ code[2] >= 32

\* C2: install with an identifier that has only bit 31 and bits 4..0 set
\* returns 0, and the slot (direction, index) then reads as the handler.
C2_InstallThenRead ==
  (api.last.op = "install" /\ ~OutsideBits(api.last.code))
    => /\ api.last.ret = 0
       /\ LutRead(api.last.code[1] \div 32768, api.last.code[2]) = api.last.handler

\* the last slot of the interrupt row has been installed
C2_Witness ==
  /\ api.last.op = "install" /\ api.last.code = TRAP_CODE_FIRQ(15)
  /\ api.last.handler = Handler2 /\ LutRead(1, 31) = Handler2
  /\ api.last.changed = {LutAddr(1, 31)}

\* C3: install with an identifier that has a bit set outside bit 31 and bits
\* 4..0 returns -1 and leaves all 64 slots as they were.
C3_InvalidCodeRejected ==
  (api.last.op = "install" /\ OutsideBits(api.last.code))
    => /\ api.last.ret = -1
       /\ api.last.changed \cap LutAddrs = {}

\* install was called with bit 5 set, which scaled to words is the offset of
\* row 1, and returned -1
C3_Witness ==
  /\ api.last.op = "install" /\ api.last.code = W(0, 32)
  /\ api.last.ret = -1 /\ TableAllDebug

\* the indexes the handler has put to are register numbers of the build
PutsInRange(c) == DOMAIN hist[c].put \subseteq Regs

\* C8: inside a handler, for register numbers of the build, a context_get of
\* x returns the value of the last context_put to x, and, where there was
\* none, what it returned before any put: a put to x changes no other y.
C8_GetAfterPut ==
  \A c \in Cores :
    (hist[c].got # <<>> /\ hist[c].got[1] \in Regs /\ PutsInRange(c))
      => LET y == hist[c].got[1]
         IN  hist[c].got[2] = IF y \in DOMAIN hist[c].put
                                THEN hist[c].put[y] ELSE hist[c].frame[y]

\* on the full register file the handler put to 2 and to 18, then got 18 and
\* was returned the word it had put there
C8_Witness ==
  \E c \in Cores :
    /\ at[c] = "handler" /\ ~cfg.riscv_32e
    /\ DOMAIN hist[c].put = {2, 18}
    /\ hist[c].got = <<18, W(0, 1)>>

\* an exception the debug handler does not halt on
Recoverable(tc) ==
  /\ ~Negative(tc)
  /\ tc \notin {TRAP_CODE_I_ACCESS, TRAP_CODE_I_MISALIGNED, TRAP_CODE_DOUBLE_TRAP}

\* the trap on c has executed its mret after the debug handler alone was
\* called, with mepc past the trapped instruction and mie as the trap found it
ResumedAfterDebug(c) ==
  /\ at[c] = "app" /\ hist[c].done
  /\ hist[c].invoked = <<DebugHandlerAddr>>
  /\ csr[c].mepc = Advanced(c)
  /\ csr[c].mie = hist[c].mie

\* C11: when the debug handler is called for an exception other than the
\* instruction access fault, the misaligned instruction address and the
\* double trap, it returns and the trap ends: the program is resumed at the
\* instruction after the trapped one, with mie unchanged.
C11_DebugResumes ==
  \A c \in Cores :
    (at[c] = "debug" /\ Recoverable(hist[c].mcause)) ~> ResumedAfterDebug(c)

\* an illegal instruction taken with interrupts enabled was reported on UART0
\* by the debug handler and the program has been resumed
C11_Witness ==
  \E c \in Cores :
    /\ ResumedAfterDebug(c) /\ cfg.uart0
    /\ hist[c].mcause = TRAP_CODE_I_ILLEGAL
    /\ \E k \in DOMAIN hist[c].line : hist[c].line[k] = "Illegal instruction"
    /\ hist[c].mie # Zero

\* C12: while a handler runs, mscratch holds the base of the frame of this
\* trap, the stack pointer the trap was taken with minus 4 times the number
\* of registers, and a context_get of x made before any context_put has
\* returned what register x held when the trap was taken: 0 for x = 0, the
\* stack pointer of the interrupted program for x = 2.
C12_FramePublished ==
  \A c \in Cores :
    at[c] = "handler" =>
      /\ csr[c].mscratch = Sub32(hist[c].regs[2], Num(4 * NumRegs(cfg.riscv_32e)))
      /\ (hist[c].got # <<>> /\ hist[c].got[1] \in Regs /\ hist[c].put = <<>>)
           => hist[c].got[2] = IF hist[c].got[1] = 0 THEN Zero
                               ELSE hist[c].regs[hist[c].got[1]]

\* on the reduced register file a handler on core 1 got register 2 and was
\* returned the stack pointer of the interrupted program
C12_Witness ==
  /\ at[1] = "handler" /\ cfg.riscv_32e
  /\ hist[1].put = <<>> /\ hist[1].got = <<2, StackTop(1)>>
  /\ csr[1].mscratch = Sub32(StackTop(1), Num(64))

\* C13: an install that returns 0 changes no word but the slot (direction,
\* index) of its identifier, for exceptions and for interrupts, and stores to
\* no address outside the table.
C13_OneSlotWritten ==
  (api.last.op = "install" /\ api.last.ret = 0) =>
    /\ api.last.changed \subseteq
         {LutAddr(api.last.code[1] \div 32768, api.last.code[2] % 32)}
    /\ DOMAIN mem = LutAddrs

\* the install of a handler for the machine timer interrupt, whose identifier
\* has bit 31 set, has changed slot (1, 7) alone
C13_Witness ==
  /\ api.last.op = "install" /\ api.last.ret = 0
  /\ api.last.code = TRAP_CODE_MTI
  /\ api.last.changed = {LutAddr(1, 7)}
  /\ LutRead(0, 7) \in {DebugHandlerAddr, Zero}

\* the slot of the cause of the trap on c holds null (no install is made
\* while traps are taken, so it held null when the trap read it)
SlotIsNull(c) ==
  LutRead(IF Negative(hist[c].mcause) THEN 1 ELSE 0, hist[c].mcause[2] % 32) = Zero

\* after the table read of a trap whose slot is null: no handler is called,
\* the trap is at the fix-up, the restore or past the mret, mepc is advanced
\* for an exception other than the instruction access fault, and at the mret
\* the registers of the interrupted program are restored
NullSlotPath(c) ==
    (LookedUp(c) /\ SlotIsNull(c)) =>
      /\ hist[c].invoked = <<>>
      /\ at[c] \in {"fixup", "restore", "app"}
      /\ FixupDone(c) =>
           csr[c].mepc = IF AdvancingCause(hist[c].mcause)
                           THEN Advanced(c) ELSE hist[c].mepc
      /\ at[c] = "app" =>
           /\ hist[c].done
           /\ \A r \in Regs \ {0} : x[c][r] = hist[c].regs[r]

\* C14: when the slot of the cause holds null, no handler is called and the
\* trap still goes through the fix-up (for an exception other than the
\* instruction access fault), the restore and the mret: it completes, and
\* the interrupted program is resumed.
C14_NullSlotSkipsHandler ==
  \A c \in Cores :
    /\ [] NullSlotPath(c)
    /\ (at[c] = "dispatch" /\ SlotIsNull(c))
         ~> (at[c] = "app" /\ hist[c].done /\ hist[c].invoked = <<>>)

\* an environment call whose slot is null has returned past the ecall, and
\* no handler was called
C14_Witness ==
  \E c \in Cores :
    /\ SlotIsNull(c) /\ hist[c].done /\ hist[c].invoked = <<>>
    /\ hist[c].mcause = TRAP_CODE_MENV_CALL
    /\ csr[c].mepc = Advanced(c)

\* C15: when the program is resumed after a handler that called context_put
\* with register numbers of the build, every register x >= 1 that was put to
\* holds the last value put to it, x = 2, the stack pointer, included; every
\* other register holds what it held when the trap was taken; x0 is 0 also
\* after a put to 0.
C15_PutReachesRegister ==
  \A c \in Cores :
    (at[c] = "app" /\ hist[c].done /\ PutsInRange(c)) =>
      \A r \in Regs :
        x[c][r] = IF r = 0 THEN Zero
                  ELSE IF r \in DOMAIN hist[c].put THEN hist[c].put[r]
                  ELSE hist[c].regs[r]

\* a program on the full register file has been resumed with the stack
\* pointer and x18 a handler put, and x0 = 0 after a put to 0
C15_Witness ==
  \E c \in Cores :
    /\ at[c] = "app" /\ hist[c].done /\ ~cfg.riscv_32e
    /\ DOMAIN hist[c].put = {0, 2, 18}
    /\ hist[c].put[0] = W(51966, 256) /\ x[c][0] = Zero
    /\ x[c][2] = W(0, 1) /\ x[c][18] = W(51966, 256)

\* the frame of the trap on c is live: saved, and not yet restored
FrameLive(c) == at[c] \in {"dispatch", "handler", "debug", "halt", "fixup", "restore"}

\* in the frame of the trap on c, placed below the stack pointer the trap was
\* taken with, slot 0 holds 0 and slot 2 holds that stack pointer
FixedSlots(c) ==
  LET base == Sub32(hist[c].regs[2], Num(4 * NumRegs(cfg.riscv_32e)))
  IN  /\ Load(mem, base) = Zero
      /\ Load(mem, Add32(base, Num(8))) = hist[c].regs[2]

\* C16 as stated: while the frame is live, slot 0 holds 0 and slot 2 holds
\* the stack pointer the trap was taken with, whatever context_put calls the
\* handler makes.
C16_Original ==
  \A c \in Cores : FrameLive(c) => FixedSlots(c)

\* no context_put of the handler addressed slot 0 or slot 2
NoPutToFixedSlots(c) ==
  \A xi \in DOMAIN hist[c].put : xi % NumRegs(cfg.riscv_32e) \notin {0, 2}

\* C16 amended: the same, as long as the handler has made no context_put
\* whose index, masked to the register file, is 0 or 2.
C16_FixedSlotsKept ==
  \A c \in Cores : (FrameLive(c) /\ NoPutToFixedSlots(c)) => FixedSlots(c)

\* on the full register file a handler that put to 18 has returned, and the
\* frame is about to be restored
C16_Witness ==
  \E c \in Cores :
    /\ at[c] = "restore" /\ ~cfg.riscv_32e
    /\ DOMAIN hist[c].put = {18}
    /\ FixedSlots(c)

\* C17: without UART0 the debug handler, whatever the cause, returns to
\* neorv32_rte_core in one step that sends nothing and changes no CSR (mie,
\* mepc) and no memory (the table, the frame).
C17_SilentWithoutUart ==
  [][\A c \in Cores :
       (at[c] = "debug" /\ ~cfg.uart0 /\ at'[c] # "debug") =>
         /\ at'[c] = "fixup"
         /\ hist'[c].line = <<>>
         /\ csr' = csr
         /\ mem' = mem]_vars

\* without UART0 the debug handler has returned from a double trap taken
\* with interrupts enabled, and mie and mepc are as the trap found them
C17_Witness ==
  \E c \in Cores :
    /\ ~cfg.uart0 /\ at[c] = "fixup"
    /\ hist[c].invoked = <<DebugHandlerAddr>>
    /\ hist[c].mcause = TRAP_CODE_DOUBLE_TRAP
    /\ hist[c].mie # Zero /\ csr[c].mie = hist[c].mie
    /\ csr[c].mepc = hist[c].mepc

\* the handler in the slot of the cause of the trap on o returns to
\* neorv32_rte_core: it is not the debug handler called for a fatal cause
ReturningHandler(o) ==
  ~ /\ LutRead(IF Negative(hist[o].mcause) THEN 1 ELSE 0, hist[o].mcause[2] % 32)
         = DebugHandlerAddr
    /\ hist[o].mcause \in
         {TRAP_CODE_I_ACCESS, TRAP_CODE_I_MISALIGNED, TRAP_CODE_DOUBLE_TRAP}

\* with h halted, the state of o is what o alone made it: until its own
\* handler runs mie is as its trap found it; while its frame is live mscratch
\* holds the frame base and the frame holds the registers its trap found;
\* the table holds in every slot what it held before the halt
OtherIntact(h, o) ==
  at[h] = "halt" =>
    /\ at[o] \in {"save", "dispatch", "debug", "handler"} => csr[o].mie = hist[o].mie
    /\ at[o] \in {"dispatch", "debug", "handler", "fixup", "restore"} =>
         LET base == Sub32(hist[o].regs[2], Num(4 * NumRegs(cfg.riscv_32e)))
         IN  /\ csr[o].mscratch = base
             /\ \A r \in Regs : Load(mem, Add32(base, Num(4 * r))) = hist[o].regs[r]
    /\ TableAllDebug

\* C18: when core h has halted on a fatal exception, mie, mscratch and the
\* frame of the other core o and the table are as o left them; and every
\* trap taken on o whose handler returns ends with its mret, the registers
\* of o restored.
C18_OtherCoreUnaffected ==
  \A h \in Cores : \A o \in Cores \ {h} :
    /\ [] OtherIntact(h, o)
    /\ (at[h] = "halt" /\ at[o] = "save" /\ ReturningHandler(o))
         ~> (at[h] = "halt" /\ at[o] = "app" /\ hist[o].done
             /\ \A r \in Regs \ {0} : x[o][r] = hist[o].regs[r])

\* core 0 has halted and core 1, which took a timer interrupt after that, has
\* been resumed with its other interrupt sources still enabled
C18_Witness ==
  /\ at[0] = "halt" /\ csr[0].mie = Zero
  /\ at[1] = "app" /\ hist[1].done /\ hist[1].mcause = TRAP_CODE_MTI
  /\ hist[1].mie = W(33009, 3969)
  /\ csr[1].mie = W(33009, 3841)

\* what the slot of identifier code holds
SlotOf(code) == LutRead(IF Negative(code) THEN 1 ELSE 0, code[2] % 32)

AdvancedFrom(c, a) ==
  IF cfg.riscv_c /\ Low2(csr[c].mtinst) # 3 THEN Add32(a, Num(2)) ELSE Add32(a, Num(4))

\* mepc as the handler of the trap on c left it
EpcAfterHandler(c) == IF "mepc" \in hist[c].wrote THEN hist[c].epc ELSE hist[c].mepc

\* C20: the fix-up uses the cause the trap was taken with and the resume
\* address as the handler left it.  After a handler of an exception other
\* than the instruction access fault wrote a to mepc, the resume address is
\* a + 4, or a + 2 for a compressed instruction; after a handler wrote mcause,
\* the fix-up is applied exactly if the cause the trap was taken with is such
\* an exception.
C20_FixupAfterHandler ==
  \A c \in Cores :
    /\ (FixupDone(c) /\ "mepc" \in hist[c].wrote /\ AdvancingCause(hist[c].mcause))
         => csr[c].mepc = AdvancedFrom(c, hist[c].epc)
    /\ (FixupDone(c) /\ "mcause" \in hist[c].wrote)
         => csr[c].mepc = IF AdvancingCause(hist[c].mcause)
                            THEN AdvancedFrom(c, EpcAfterHandler(c))
                            ELSE EpcAfterHandler(c)

\* an illegal compressed instruction whose handler wrote 0x400 to mepc and
\* the code of the instruction access fault to mcause has resumed at 0x402;
\* or an interrupt whose handler wrote the code of the illegal instruction to
\* mcause has resumed where it was taken
C20_Witness ==
  \E c \in Cores :
    /\ hist[c].done /\ at[c] = "app"
    /\ \/ /\ hist[c].mcause = TRAP_CODE_I_ILLEGAL /\ csr[c].mcause = TRAP_CODE_I_ACCESS
          /\ hist[c].wrote = {"mepc", "mcause"} /\ hist[c].epc = W(0, 1024)
          /\ cfg.riscv_c /\ Low2(csr[c].mtinst) # 3
          /\ csr[c].mepc = W(0, 1026)
       \/ /\ hist[c].mcause = TRAP_CODE_MTI /\ csr[c].mcause = TRAP_CODE_I_ILLEGAL
          /\ hist[c].wrote = {"mcause"}
          /\ csr[c].mepc = hist[c].mepc

=============================================================================
